---------------------------- MODULE Spec2Model ----------------------------
(***************************************************************************)
(* Verification model of uno-serverless / nv-aws-lambda:                   *)
(*   - the middleware pipeline (composition core) and the built-in         *)
(*     errorLogging and validateBody middlewares,                          *)
(*   - the Azure Functions provider adapter,                               *)
(*   - the error model and dependencyErrorProxy,                           *)
(*   - SSMParameterStoreConfigService (cached configuration),              *)
(*   - httpRouter / runHttp,                                               *)
(*   - error values as objects and the writes of their holders,            *)
(*   - lambdaProxy,                                                        *)
(*   - getParameters, the paginated fetch of the configuration service.    *)
(* Each component has its own specification (SpecPipeline, SpecAzure,      *)
(* SpecProxy, SpecSSM, SpecSSMSet, SpecRouter, SpecErrors,                 *)
(* SpecLambdaProxy, SpecPaging); the variables of the other components     *)
(* stay at their idle value.                                               *)
(***************************************************************************)
EXTENDS Integers, Sequences, FiniteSets, TLC

VARIABLES
  \* middleware pipeline
  chain,          \* registered middlewares, in registration order
  pEvent,         \* the uniform event of the invocation
  pSchema,        \* the schema given to validateBody
  handlerThrows,  \* whether the terminal handler raises
  depth,          \* index of the innermost stage entered and not yet left
  phase,          \* "in" (going inwards), "out" (unwinding), "idle"
  outcome,        \* what the stage just left produced
  trace,          \* execution trace of the invocation
  logged,         \* entries emitted by errorLogging
  \* Azure Functions adapter
  azEvent,        \* the provider-native event
  azPipeline,     \* how outerCircle settles
  azPc,           \* position of the adapter
  unoEventType,   \* classification of the event
  doneCalls,      \* calls made to context.done
  doneThrows,     \* whether context.done throws after taking the completion
  \* dependencyErrorProxy
  member,         \* the member of the target reached through the proxy
  targetName,     \* the name given to dependencyErrorProxy
  pxPc,           \* position of the proxied call
  observed,       \* what the caller of the proxy observes
  \* SSMParameterStoreConfigService
  options,        \* this.options (ttl)
  cache,          \* this.cache
  fetches,        \* the getParameters calls started so far
  now,            \* the clock (new Date().getTime())
  callers,        \* the get and set calls
  store,          \* version of the value of "present" in the parameter store
  \* httpRouter
  routes,         \* the router configuration, in declaration order
  rEvent,         \* arg.event
  handlerBehaviour, \* what the user function selected does
  rPc,            \* position of the router
  rOutcome,       \* what the router's promise settles with
  \* error values and their holders
  errObj,         \* the error object, as its holders see it now
  errBuilt,       \* the same object, as it was when the constructor returned
  errWrites,      \* number of write attempts made by the holders
  \* lambdaProxy
  lpFunc,         \* what the wrapped function does
  lpLogger,       \* what options.errorLogger does
  lpCors,         \* options.cors
  lpPc,           \* position of the handler
  lpResult,       \* what the handler's promise settles with
  loggerCalls,    \* calls made to the error logger
  \* getParameters (paginated fetch)
  numberOfIterations, \* options.numberOfIterations, as given to the constructor
  iteration,      \* the local counter of getParameters
  roundTrips,     \* getParametersByPath calls issued by the fetch
  partialResult,  \* the last page received
  parameterMap,   \* the parameters merged so far
  pgOutcome       \* what the promise of getParameters settles with

pipeVars   == <<chain, pEvent, pSchema, handlerThrows, depth, phase, outcome, trace, logged>>
azVars     == <<azEvent, azPipeline, azPc, unoEventType, doneCalls, doneThrows>>
proxyVars  == <<member, targetName, pxPc, observed>>
ssmVars    == <<options, cache, fetches, now, callers, store>>
routerVars == <<routes, rEvent, handlerBehaviour, rPc, rOutcome>>
errVars    == <<errObj, errBuilt, errWrites>>
lpVars     == <<lpFunc, lpLogger, lpCors, lpPc, lpResult, loggerCalls>>
pgVars     == <<numberOfIterations, iteration, roundTrips, partialResult, parameterMap, pgOutcome>>
vars       == <<pipeVars, azVars, proxyVars, ssmVars, routerVars, errVars, lpVars, pgVars>>

(***************************************************************************)
(* Bounds of the model.                                                    *)
(***************************************************************************)
MaxMiddlewares == 3
MaxBufferLen == 3
MaxTime == 2
MaxCalls == 3

(***************************************************************************)
(* HTTP status codes used by the error model and the adapters.             *)
(***************************************************************************)
NO_CONTENT == 204
BAD_REQUEST == 400
NOT_FOUND == 404
METHOD_NOT_ALLOWED == 405
INTERNAL_SERVER_ERROR == 500
BAD_GATEWAY == 502

(***************************************************************************)
(* Error model.  A thrown value is a record; "kind" tells a real Error     *)
(* object from the other things JavaScript lets one throw.  "id" is the    *)
(* identity of the object: two errors are the same object iff the records  *)
(* are equal.  "getStatusCode" is the typeof of the member of that name.   *)
(***************************************************************************)
NoDetails == {}

Thrown(kind, id, code, gsc, status, target, message, details) ==
  [kind |-> kind, id |-> id, code |-> code, getStatusCode |-> gsc,
   status |-> status, target |-> target, message |-> message, details |-> details]

NoError == Thrown("none", "", "", "undefined", 0, "", "", NoDetails)

isStatusCodeProvider(error) == error.getStatusCode = "function"

buildError(id, errorData, httpStatusCode) ==
  Thrown("error", id, errorData.code, "function", httpStatusCode,
         errorData.target, errorData.message, errorData.details)

internalServerError(id, message) ==
  buildError(id, [code |-> "internalServerError", target |-> "", message |-> message,
                  details |-> NoDetails], INTERNAL_SERVER_ERROR)

notFoundError(id, target, message) ==
  buildError(id, [code |-> "notFound", target |-> target, message |-> message,
                  details |-> NoDetails], NOT_FOUND)

badRequestError(id, message) ==
  buildError(id, [code |-> "badRequest", target |-> "", message |-> message,
                  details |-> NoDetails], BAD_REQUEST)

methodNotAllowedError(id, message) ==
  buildError(id, [code |-> "methodNotAllowed", target |-> "", message |-> message,
                  details |-> NoDetails], METHOD_NOT_ALLOWED)

validationError(id, errors) ==
  buildError(id, [code |-> "validationError", target |-> "", message |-> "Validation failed",
                  details |-> errors], BAD_REQUEST)

\* new Error(message): no code, no status-code capability
plainError(id, message) ==
  Thrown("error", id, "", "undefined", 0, "", message, NoDetails)


(***************************************************************************)
(* Idle values: the state of a component in the specifications of the      *)
(* other components.                                                       *)
(***************************************************************************)
NoOutcome == [kind |-> "none", value |-> "", error |-> NoError]

PipeIdle ==
  /\ chain = <<>> /\ pEvent = [httpMethod |-> "", body |-> [present |-> FALSE, fields |-> {}]]
  /\ pSchema = [required |-> {}, properties |-> {}, additionalProperties |-> TRUE]
  /\ handlerThrows = FALSE /\ depth = 0 /\ phase = "idle"
  /\ outcome = NoOutcome /\ trace = <<>> /\ logged = <<>>

AzIdle ==
  /\ azEvent = "undefined" /\ azPipeline = NoOutcome /\ azPc = "idle"
  /\ unoEventType = "none" /\ doneCalls = <<>> /\ doneThrows = FALSE

ProxyIdle ==
  /\ member = [kind |-> "none", result |-> "undefined", error |-> NoError] /\ targetName = ""
  /\ pxPc = "idle" /\ observed = NoOutcome

SsmIdle ==
  /\ options = [ttlDefined |-> FALSE, ttl |-> 0] /\ cache = [defined |-> FALSE]
  /\ fetches = <<>> /\ now = 0 /\ callers = <<>> /\ store = 0

RouterIdle ==
  /\ routes = <<>> /\ rEvent = [httpMethod |-> "", url |-> "", parameters |-> {}]
  /\ handlerBehaviour = "undefined" /\ rPc = [at |-> "idle", route |-> 0]
  /\ rOutcome = NoOutcome

ErrIdle ==
  /\ errObj = [built |-> FALSE] /\ errBuilt = [built |-> FALSE] /\ errWrites = 0

LpIdle ==
  /\ lpFunc = "none" /\ lpLogger = "none" /\ lpCors = "undefined" /\ lpPc = "idle"
  /\ lpResult = NoOutcome /\ loggerCalls = 0

PgIdle ==
  /\ numberOfIterations = 0 /\ iteration = 0 /\ roundTrips = 0
  /\ partialResult = "undefined" /\ parameterMap = {} /\ pgOutcome = NoOutcome

(***************************************************************************)
(* Middleware pipeline (composition core).  A middleware has the shape     *)
(* (next) => (arg) => Promise<result>; the builder composes the registered *)
(* middlewares so that the first registered is the outermost wrapper and   *)
(* the terminal handler the innermost function.  One invocation is one     *)
(* cooperative task: "depth" is the stack of stages entered, "phase" tells *)
(* whether control goes inwards or unwinds.                                *)
(***************************************************************************)
MiddlewareKinds == {"pass", "raise", "errorLogging", "validateBody", "replaceError"}

HttpMethods == {"get", "post", "put", "patch", "delete"}

\* methods for which validateBody expects a body
BodyMethods == {"post", "put", "patch"}

\* the bodies of the invocations: none, or a JSON object given by its typed fields
Bodies ==
  { [present |-> FALSE, fields |-> {}],
    [present |-> TRUE, fields |-> {}],
    [present |-> TRUE, fields |-> {<<"foo", "string">>}],
    [present |-> TRUE, fields |-> {<<"bar", "string">>}],
    [present |-> TRUE, fields |-> {<<"bar", "string">>, <<"foo", "number">>}],
    [present |-> TRUE, fields |-> {<<"bar", "string">>, <<"baz", "string">>}] }

\* the schemas given to validateBody: the one of the tests, and {}
Schemas ==
  { [required |-> {"bar"}, properties |-> {<<"bar", "string">>, <<"foo", "number">>},
     additionalProperties |-> FALSE],
    [required |-> {}, properties |-> {}, additionalProperties |-> TRUE] }

FieldNames(fields) == { f[1] : f \in fields }

\* structural validation: one ErrorData per violated constraint
Validate(schema, body) ==
  { [code |-> "required", target |-> k] : k \in schema.required \ FieldNames(body.fields) }
  \cup
  { [code |-> "type", target |-> f[1]] :
      f \in { g \in body.fields : \E p \in schema.properties : p[1] = g[1] /\ p[2] # g[2] } }
  \cup
  { [code |-> "additionalProperties", target |-> k] :
      k \in IF schema.additionalProperties THEN {}
            ELSE FieldNames(body.fields) \ FieldNames(schema.properties) }

Ok(value) == [kind |-> "ok", value |-> value, error |-> NoError]
Raised(error) == [kind |-> "err", value |-> "", error |-> error]

\* identity of an error raised by stage i (the handler is stage Len(chain) + 1)
ErrId(i) == "stage" \o ToString(i)

\* what validateBody decides before calling next: NoError when it calls next
validateBodyAllMethods(i, event, schema) ==
  IF ~event.body.present THEN badRequestError(ErrId(i), "Missing body")
  ELSE IF Validate(schema, event.body) # {}
    THEN validationError(ErrId(i), Validate(schema, event.body))
    ELSE NoError

validateBody(i, event, schema) ==
  IF event.httpMethod \notin BodyMethods THEN NoError
  ELSE IF ~event.body.present THEN badRequestError(ErrId(i), "Missing body")
  ELSE IF Validate(schema, event.body) # {}
    THEN validationError(ErrId(i), Validate(schema, event.body))
    ELSE NoError

\* what a middleware raises on entry instead of calling next (NoError: it calls next)
RaisedOnEntry(i) ==
  CASE chain[i] = "raise" -> plainError(ErrId(i), "short-circuit")
    [] chain[i] = "validateBody" -> validateBody(i, pEvent, pSchema)
    [] OTHER -> NoError

\* errorLogging: one entry per error observed
errorLogging(i, entries, o) ==
  IF o.kind = "err" THEN Append(entries, [by |-> i, error |-> o.error]) ELSE entries

\* what a middleware makes of the outcome of its next() call
ResumeWrapping(i, o) ==
  IF chain[i] \in {"replaceError", "errorLogging"} /\ o.kind = "err"
  THEN Raised(internalServerError(ErrId(i), o.error.message))
  ELSE o

ResumeOutcome(i, o) ==
  IF chain[i] = "replaceError" /\ o.kind = "err"
  THEN Raised(internalServerError(ErrId(i), o.error.message))
  ELSE o

PipeInit ==
  /\ chain \in UNION { [1..n -> MiddlewareKinds] : n \in 1..MaxMiddlewares }
  /\ pEvent \in [httpMethod : HttpMethods, body : Bodies]
  /\ pSchema \in Schemas
  /\ handlerThrows \in BOOLEAN
  /\ depth = 0 /\ phase = "in" /\ outcome = NoOutcome
  /\ trace = <<>> /\ logged = <<>>

\* the stage entered next: skipping a stage would be a composition bug
NextStageSkipping(d) == IF d + 2 <= Len(chain) THEN d + 2 ELSE d + 1

NextStage(d) == d + 1

\* middleware i is entered and awaits next(arg)
EnterCallsNext ==
  /\ phase = "in" /\ NextStage(depth) <= Len(chain)
  /\ RaisedOnEntry(NextStage(depth)) = NoError
  /\ depth' = NextStage(depth)
  /\ trace' = Append(trace, [ev |-> "enter", i |-> NextStage(depth), seen |-> NoOutcome])
  /\ UNCHANGED <<chain, pEvent, pSchema, handlerThrows, phase, outcome, logged>>
  /\ UNCHANGED <<azVars, proxyVars, ssmVars, routerVars, errVars, lpVars, pgVars>>

\* middleware i is entered and raises without calling next
EnterRaises ==
  /\ phase = "in" /\ NextStage(depth) <= Len(chain)
  /\ RaisedOnEntry(NextStage(depth)) # NoError
  /\ phase' = "out"
  /\ outcome' = Raised(RaisedOnEntry(NextStage(depth)))
  /\ trace' = trace \o <<[ev |-> "enter", i |-> NextStage(depth), seen |-> NoOutcome],
                          [ev |-> "raise", i |-> NextStage(depth),
                            seen |-> Raised(RaisedOnEntry(NextStage(depth)))]>>
  /\ UNCHANGED <<chain, pEvent, pSchema, handlerThrows, depth, logged>>
  /\ UNCHANGED <<azVars, proxyVars, ssmVars, routerVars, errVars, lpVars, pgVars>>

HandlerOutcome ==
  IF handlerThrows THEN Raised(plainError(ErrId(Len(chain) + 1), "foo")) ELSE Ok("result")

\* the terminal handler runs
RunHandler ==
  /\ phase = "in" /\ NextStage(depth) = Len(chain) + 1
  /\ phase' = "out"
  /\ outcome' = HandlerOutcome
  /\ trace' = Append(trace, [ev |-> "handler", i |-> Len(chain) + 1, seen |-> HandlerOutcome])
  /\ UNCHANGED <<chain, pEvent, pSchema, handlerThrows, depth, logged>>
  /\ UNCHANGED <<azVars, proxyVars, ssmVars, routerVars, errVars, lpVars, pgVars>>

\* the next() call of middleware "depth" settles and the middleware finishes
Resume ==
  /\ phase = "out" /\ depth >= 1
  /\ logged' = IF chain[depth] = "errorLogging" THEN errorLogging(depth, logged, outcome)
                ELSE logged
  /\ outcome' = ResumeOutcome(depth, outcome)
  /\ trace' = Append(trace, [ev |-> "resume", i |-> depth, seen |-> outcome])
  /\ depth' = depth - 1
  /\ UNCHANGED <<chain, pEvent, pSchema, handlerThrows, phase>>
  /\ UNCHANGED <<azVars, proxyVars, ssmVars, routerVars, errVars, lpVars, pgVars>>

PipeNext == EnterCallsNext \/ EnterRaises \/ RunHandler \/ Resume

PipeDone == phase = "out" /\ depth = 0


(***************************************************************************)
(* Claims about the pipeline.                                              *)
(***************************************************************************)
Enters == SelectSeq(trace, LAMBDA e : e.ev = "enter")
Resumes == SelectSeq(trace, LAMBDA e : e.ev = "resume")
RaisePositions == { p \in DOMAIN trace : trace[p].ev = "raise" }
HandlerPositions == { p \in DOMAIN trace : trace[p].ev = "handler" }
\* the innermost middleware that called next
InnermostAwaiting == Len(Enters) - Cardinality(RaisePositions)

ResumeOf(i) == { p \in DOMAIN trace : trace[p].ev = "resume" /\ trace[p].i = i }
LoggedBy(i) == SelectSeq(logged, LAMBDA e : e.by = i)

\* C2: errorLogging registered first emits exactly one log entry for an error
\* raised by any inner middleware or by the terminal handler and re-raises
\* the very same error value; when the inner chain completes without error it
\* logs nothing and returns the inner result unchanged.
C2_ErrorLoggingFirst ==
  (chain # <<>> /\ chain[1] = "errorLogging") =>
    /\ \A p \in ResumeOf(1) :
         IF trace[p].seen.kind = "err"
         THEN /\ LoggedBy(1) = <<[by |-> 1, error |-> trace[p].seen.error]>>
              /\ outcome = Raised(trace[p].seen.error)
         ELSE /\ LoggedBy(1) = <<>>
              /\ outcome = trace[p].seen
    /\ ResumeOf(1) = {} => LoggedBy(1) = <<>>
    /\ PipeDone => ResumeOf(1) # {}

\* C2 witness: errorLogging is outermost, the terminal handler raised, and the
\* invocation ended with the handler's error after one log entry.
C2_Witness ==
  /\ PipeDone /\ Len(chain) = 3 /\ chain[1] = "errorLogging"
  /\ \E p \in HandlerPositions : trace[p].seen.kind = "err" /\ outcome = trace[p].seen
  /\ Len(LoggedBy(1)) = 1

\* the "raise" event of middleware i, if it raised on entry
RaiseOf(i) == { p \in RaisePositions : trace[p].i = i }
EnteredValidateBody == { e.i : e \in { trace[p] : p \in { q \in DOMAIN trace :
                           trace[q].ev = "enter" /\ chain[trace[q].i] = "validateBody" } } }

\* C10: validateBody never raises for GET (any schema, any or no body) and the
\* handler runs; for PUT/POST/PATCH with a body failing the schema it raises
\* validationError and the handler does not run; for a method that requires a
\* body when none is present it raises badRequest, never validationError.
C10_ValidateBody ==
  /\ \A i \in EnteredValidateBody :
       /\ pEvent.httpMethod = "get" => RaiseOf(i) = {}
       /\ (pEvent.httpMethod \in {"put", "post", "patch"} /\ pEvent.body.present
             /\ Validate(pSchema, pEvent.body) # {}) =>
            /\ \E p \in RaiseOf(i) : trace[p].seen.error.code = "validationError"
            /\ HandlerPositions = {}
       /\ (pEvent.httpMethod \in {"put", "post", "patch"} /\ ~pEvent.body.present) =>
            /\ \E p \in RaiseOf(i) : trace[p].seen.error.code = "badRequest"
            /\ \A p \in RaiseOf(i) : trace[p].seen.error.code # "validationError"
            /\ HandlerPositions = {}
  /\ (PipeDone /\ pEvent.httpMethod = "get"
        /\ \A i \in DOMAIN chain : chain[i] # "raise") => HandlerPositions # {}

\* C10 witness: a PUT whose body {foo: "foo"} fails the schema of the tests was
\* refused by validateBody with validationError.
C10_Witness ==
  /\ PipeDone /\ pEvent.httpMethod = "put"
  /\ pEvent.body = [present |-> TRUE, fields |-> {<<"foo", "string">>}]
  /\ \E p \in RaisePositions : /\ chain[trace[p].i] = "validateBody"
                               /\ trace[p].seen.error.code = "validationError"
                               /\ Cardinality(trace[p].seen.error.details) = 2

(***************************************************************************)
(* JavaScript values carried as bodies: undefined, strings, numbers,       *)
(* Buffers (byte sequences) and other objects.                             *)
(***************************************************************************)
JsUndefined == [t |-> "undefined", s |-> "", n |-> 0, b |-> <<>>]
JsString(str) == [t |-> "string", s |-> str, n |-> 0, b |-> <<>>]
JsNumber(k) == [t |-> "number", s |-> "", n |-> k, b |-> <<>>]
JsBuffer(bytes) == [t |-> "buffer", s |-> "", n |-> 0, b |-> bytes]
JsObject(name) == [t |-> "object", s |-> name, n |-> 0, b |-> <<>>]

\* JavaScript truthiness
Truthy(v) ==
  CASE v.t = "undefined" -> FALSE
    [] v.t = "string" -> v.s # ""
    [] v.t = "number" -> v.n # 0
    [] OTHER -> TRUE

Base64Alphabet ==
  << "A","B","C","D","E","F","G","H","I","J","K","L","M","N","O","P",
     "Q","R","S","T","U","V","W","X","Y","Z","a","b","c","d","e","f",
     "g","h","i","j","k","l","m","n","o","p","q","r","s","t","u","v",
     "w","x","y","z","0","1","2","3","4","5","6","7","8","9","+","/" >>

Base64Char(k) == Base64Alphabet[k + 1]

\* Buffer.prototype.toString("base64")
RECURSIVE toStringBase64(_)
toStringBase64(bytes) ==
  CASE Len(bytes) = 0 -> ""
    [] Len(bytes) = 1 ->
         Base64Char(bytes[1] \div 4) \o Base64Char((bytes[1] % 4) * 16) \o "=="
    [] Len(bytes) = 2 ->
         Base64Char(bytes[1] \div 4)
           \o Base64Char((bytes[1] % 4) * 16 + bytes[2] \div 16)
           \o Base64Char((bytes[2] % 16) * 4) \o "="
    [] OTHER ->
         Base64Char(bytes[1] \div 4)
           \o Base64Char((bytes[1] % 4) * 16 + bytes[2] \div 16)
           \o Base64Char((bytes[2] % 16) * 4 + bytes[3] \div 64)
           \o Base64Char(bytes[3] % 64)
           \o toStringBase64(SubSeq(bytes, 4, Len(bytes)))

(***************************************************************************)
(* Azure Functions adapter.                                                *)
(***************************************************************************)
\* the provider-native events: an object with a "method" member, an object
\* without one, null, a string, undefined
AzEvents == {"httpObject", "object", "null", "string", "undefined"}

typeofEvent(event) ==
  CASE event \in {"httpObject", "object", "null"} -> "object"
    [] event = "string" -> "string"
    [] OTHER -> "undefined"

\* typeof event === "object" && typeof event !== "string" && "method" in event;
\* the in operator throws a TypeError on null
ClassifyEvent(event) ==
  IF typeofEvent(event) = "object" /\ typeofEvent(event) # "string"
  THEN CASE event = "null" -> "TypeError"
         [] event = "httpObject" -> "http"
         [] OTHER -> "any"
  ELSE "any"

\* the results of the pipeline (HttpUnoResponse or nothing)
NoResult == [t |-> "undefined", statusCode |-> 0, headers |-> "undefined", body |-> JsUndefined]
Response(statusCode, headers, body) ==
  [t |-> "response", statusCode |-> statusCode, headers |-> headers, body |-> body]

BufferBytes == {0, 77, 255}
Buffers == UNION { [1..n -> BufferBytes] : n \in 0..MaxBufferLen }
ResultBodies ==
  {JsUndefined, JsString(""), JsString("hi"), JsNumber(0), JsNumber(5), JsObject("o")}
    \cup { JsBuffer(b) : b \in Buffers }
ResultStatusCodes == {200, 201}
ResultHeaders == {"undefined", "h1"}
AzResults ==
  {NoResult} \cup { Response(c, h, b) : c \in ResultStatusCodes, h \in ResultHeaders,
                                        b \in ResultBodies }

AzErrors ==
  { plainError("e1", "boom"), notFoundError("e2", "/x", "missing"),
    badRequestError("e3", "bad") }

\* AzureFunctionsHttpResponse | undefined; isRaw FALSE and hasBody FALSE: not set
NoOutput ==
  [defined |-> FALSE, status |-> 0, headers |-> "undefined", hasBody |-> FALSE,
   body |-> JsUndefined, isRaw |-> FALSE]
Output(status, headers, body, isRaw) ==
  [defined |-> TRUE, status |-> status, headers |-> headers, hasBody |-> TRUE,
   body |-> body, isRaw |-> isRaw]
OutputNoContent ==
  [defined |-> TRUE, status |-> NO_CONTENT, headers |-> "undefined", hasBody |-> FALSE,
   body |-> JsUndefined, isRaw |-> FALSE]

\* the five assignments to output, in order
HttpOutputStep1(result) == IF result.t = "undefined" THEN OutputNoContent ELSE NoOutput
HttpOutputStep2(result, out) ==
  IF result.t # "undefined" /\ ~Truthy(result.body)
  THEN Output(result.statusCode, result.headers, JsString(""), TRUE) ELSE out
HttpOutputStep3(result, out) ==
  IF result.t # "undefined" /\ result.body.t = "string"
  THEN Output(result.statusCode, result.headers, result.body, TRUE) ELSE out
HttpOutputStep4(result, out) ==
  IF result.t # "undefined" /\ result.body.t = "buffer"
  THEN Output(result.statusCode, result.headers,
              JsString(toStringBase64(result.body.b)), TRUE)
  ELSE out
HttpOutputStep5(result, out) ==
  IF ~out.defined /\ result.t # "undefined"
  THEN Output(result.statusCode, result.headers, result.body, FALSE) ELSE out

HttpOutputNoBufferBranch(result) ==
  HttpOutputStep5(result,
    HttpOutputStep3(result, HttpOutputStep2(result, HttpOutputStep1(result))))

HttpOutput(result) ==
  HttpOutputStep5(result,
    HttpOutputStep4(result,
      HttpOutputStep3(result, HttpOutputStep2(result, HttpOutputStep1(result)))))

\* a call context.done(error, output | result)
DoneCall(error, forwarded, output, result) ==
  [error |-> error, forwarded |-> forwarded, output |-> output, result |-> result]

AzInit ==
  /\ azEvent \in AzEvents
  /\ azPipeline \in { [kind |-> "ok", value |-> r, error |-> NoError] : r \in AzResults }
                    \cup { [kind |-> "err", value |-> NoResult, error |-> e] : e \in AzErrors }
  /\ doneThrows \in BOOLEAN
  /\ azPc = "start" /\ unoEventType = "none" /\ doneCalls = <<>>

\* the provider calls the function: the context and the event are adapted and
\* outerCircle is called
AzInvoke ==
  /\ azPc = "start"
  /\ IF ClassifyEvent(azEvent) = "TypeError"
     THEN azPc' = "threw" /\ UNCHANGED unoEventType
     ELSE azPc' = "pending" /\ unoEventType' = ClassifyEvent(azEvent)
  /\ UNCHANGED <<azEvent, azPipeline, doneCalls, doneThrows>>
  /\ UNCHANGED <<pipeVars, proxyVars, ssmVars, routerVars, errVars, lpVars, pgVars>>

\* outerCircle resolved: the then callback
AzThen ==
  /\ azPc = "pending" /\ azPipeline.kind = "ok"
  /\ doneCalls' = Append(doneCalls,
       IF unoEventType = "http"
       THEN DoneCall(NoError, "output", HttpOutput(azPipeline.value), NoResult)
       ELSE DoneCall(NoError, "result", NoOutput, azPipeline.value))
  /\ azPc' = IF doneThrows THEN "thenThrew" ELSE "done"
  /\ UNCHANGED <<azEvent, azPipeline, unoEventType, doneThrows>>
  /\ UNCHANGED <<pipeVars, proxyVars, ssmVars, routerVars, errVars, lpVars, pgVars>>

\* outerCircle rejected: the catch callback
AzCatch ==
  /\ azPc = "pending" /\ azPipeline.kind = "err"
  /\ doneCalls' = Append(doneCalls, DoneCall(azPipeline.error, "none", NoOutput, NoResult))
  /\ azPc' = IF doneThrows THEN "unhandledRejection" ELSE "done"
  /\ UNCHANGED <<azEvent, azPipeline, unoEventType, doneThrows>>
  /\ UNCHANGED <<pipeVars, proxyVars, ssmVars, routerVars, errVars, lpVars, pgVars>>

\* the then callback threw (context.done threw): the catch callback runs on
\* the promise returned by then
AzCatchAfterThen ==
  /\ azPc = "thenThrew"
  /\ doneCalls' = Append(doneCalls,
                         DoneCall(plainError("done", "done threw"), "none", NoOutput, NoResult))
  /\ azPc' = "unhandledRejection"
  /\ UNCHANGED <<azEvent, azPipeline, unoEventType, doneThrows>>
  /\ UNCHANGED <<pipeVars, proxyVars, ssmVars, routerVars, errVars, lpVars, pgVars>>

AzNext == AzInvoke \/ AzThen \/ AzCatch \/ AzCatchAfterThen

(***************************************************************************)
(* Claims about the Azure adapter.                                         *)
(***************************************************************************)
\* C3: for an http event whose pipeline fails, the adapter completes the
\* invocation with an HTTP response (error argument undefined) whose status is
\* the error's getStatusCode(), an error without the capability counting as
\* internalServerError (500); only non-http invocations forward the error to
\* context.done's error argument.
C3_HttpFailureBecomesResponse ==
  (unoEventType = "http" /\ azPipeline.kind = "err" /\ doneCalls # <<>>) =>
    /\ doneCalls[1].error = NoError
    /\ doneCalls[1].forwarded = "output"
    /\ doneCalls[1].output.status =
         IF isStatusCodeProvider(azPipeline.error) THEN azPipeline.error.status
         ELSE INTERNAL_SERVER_ERROR

\* the completion of a resolved pipeline is the first call of context.done
ResolvedCompletion == azPipeline.kind = "ok" /\ doneCalls # <<>>

\* C4: result mapping of the Azure adapter for a resolved pipeline.  http:
\* undefined result -> 204 without body; string body -> that body, isRaw, the
\* result's status and headers; Buffer body -> its base64 text, isRaw; any
\* other non-empty body -> passed as-is, isRaw not set.  Not http: the result
\* is forwarded unchanged.  The error argument is undefined in all cases.
C4_ResultMapping ==
  ResolvedCompletion =>
    LET call == doneCalls[1]
        result == azPipeline.value
    IN /\ call.error = NoError
       /\ unoEventType # "http" => call.forwarded = "result" /\ call.result = result
       /\ unoEventType = "http" =>
            /\ call.forwarded = "output"
            /\ result.t = "undefined" =>
                 /\ call.output.defined /\ call.output.status = 204
                 /\ ~call.output.hasBody
            /\ (result.t = "response" /\ result.body.t = "string") =>
                 /\ call.output.hasBody /\ call.output.body = result.body
                 /\ call.output.isRaw
                 /\ call.output.status = result.statusCode
                 /\ call.output.headers = result.headers
            /\ (result.t = "response" /\ result.body.t = "buffer") =>
                 /\ call.output.body.t = "string"
                 /\ Len(result.body.b) = 0 => call.output.body.s = ""
                 /\ result.body.b = <<77>> => call.output.body.s = "TQ=="
                 /\ result.body.b = <<255, 0>> => call.output.body.s = "/wA="
                 /\ result.body.b = <<77, 77, 77>> => call.output.body.s = "TU1N"
                 /\ call.output.body.s = toStringBase64(result.body.b)
                 /\ call.output.isRaw
                 /\ call.output.status = result.statusCode
                 /\ call.output.headers = result.headers
            /\ (result.t = "response" /\ result.body.t \notin {"string", "buffer"}
                  /\ Truthy(result.body)) =>
                 /\ call.output.hasBody /\ call.output.body = result.body
                 /\ ~call.output.isRaw
                 /\ call.output.status = result.statusCode
                 /\ call.output.headers = result.headers

\* C4 witness: an http invocation resolved with status 201 and a 3-byte Buffer
\* completed with the base64 text of the buffer.
C4_Witness ==
  /\ ResolvedCompletion /\ unoEventType = "http"
  /\ azPipeline.value = Response(201, "h1", JsBuffer(<<77, 77, 77>>))
  /\ doneCalls[1].output = Output(201, "h1", JsString("TU1N"), TRUE)

(***************************************************************************)
(* dependencyErrorProxy.                                                   *)
(***************************************************************************)
\* values a method of the target throws or rejects with
ThrownValues ==
  { Thrown("undefined", "", "", "undefined", 0, "", "", NoDetails),
    Thrown("null", "", "", "undefined", 0, "", "", NoDetails),
    Thrown("string", "", "", "undefined", 0, "", "oops", NoDetails),
    Thrown("number", "", "", "undefined", 0, "", "0", NoDetails),
    plainError("u1", "standardFunc"),
    \* an object whose getStatusCode member is not a function
    Thrown("error", "u2", "custom", "number", 0, "", "not callable", NoDetails),
    internalServerError("u3", "This is a managed error"),
    notFoundError("u4", "/users/5", "missing") }

MemberResults == {"42", "false", "undefined"}

\* the members of the target: a data field, a method returning or throwing, a
\* method returning a promise that resolves or rejects
Members ==
  { [kind |-> k, result |-> r, error |-> NoError] :
      k \in {"field", "syncReturn", "promiseResolve"}, r \in MemberResults }
  \cup
  { [kind |-> k, result |-> "undefined", error |-> e] :
      k \in {"syncThrow", "promiseReject"}, e \in ThrownValues }

TargetNames == {"TestTarget", "db"}

\* JavaScript falsiness of a thrown value
Falsy(error) ==
  \/ error.kind \in {"undefined", "null"}
  \/ error.kind = "number" /\ error.message = "0"
  \/ error.kind = "string" /\ error.message = ""

\* error.name
ErrorName(error) == IF error.kind = "error" THEN "Error" ELSE "undefined"

\* what "throw dependencyError(targetName, error)" throws: reading error.name
\* of null or undefined is a TypeError
dependencyError(target, error) ==
  IF error.kind \in {"undefined", "null"}
  THEN plainError("TypeError", "Cannot read property 'name' of " \o error.kind)
  ELSE buildError("dependencyError:" \o target,
                  [code |-> "dependencyError", target |-> target,
                   message |-> error.message,
                   details |-> {[code |-> ErrorName(error), message |-> error.message,
                                 data |-> error.id]}],
                  BAD_GATEWAY)

\* the body of both catch handlers of the proxy
TrapAlwaysWraps(name, error) == dependencyError(name, error)

Trap(name, error) ==
  IF ~Falsy(error) /\ isStatusCodeProvider(error) THEN error
  ELSE dependencyError(name, error)

Observed(kind, value, error) == [kind |-> kind, value |-> value, error |-> error]

ProxyInit ==
  /\ member \in Members /\ targetName \in TargetNames
  /\ pxPc = "start" /\ observed = NoOutcome

\* the get trap, for a member that is not a function
PxGetField ==
  /\ pxPc = "start" /\ member.kind = "field"
  /\ observed' = Observed("value", member.result, NoError)
  /\ pxPc' = "done"
  /\ UNCHANGED <<member, targetName>>
  /\ UNCHANGED <<pipeVars, azVars, ssmVars, routerVars, errVars, lpVars, pgVars>>

\* the get trap, for a function: the wrapper is returned
PxGetFunction ==
  /\ pxPc = "start" /\ member.kind # "field"
  /\ pxPc' = "wrapped"
  /\ UNCHANGED <<member, targetName, observed>>
  /\ UNCHANGED <<pipeVars, azVars, ssmVars, routerVars, errVars, lpVars, pgVars>>

\* the wrapper is called and the method returns a value
PxCallReturns ==
  /\ pxPc = "wrapped" /\ member.kind = "syncReturn"
  /\ observed' = Observed("return", member.result, NoError)
  /\ pxPc' = "done"
  /\ UNCHANGED <<member, targetName>>
  /\ UNCHANGED <<pipeVars, azVars, ssmVars, routerVars, errVars, lpVars, pgVars>>

\* the wrapper is called and the method throws
PxCallThrows ==
  /\ pxPc = "wrapped" /\ member.kind = "syncThrow"
  /\ observed' = Observed("throw", "", Trap(targetName, member.error))
  /\ pxPc' = "done"
  /\ UNCHANGED <<member, targetName>>
  /\ UNCHANGED <<pipeVars, azVars, ssmVars, routerVars, errVars, lpVars, pgVars>>

\* the wrapper is called and the method returns a promise: result.catch(...)
PxCallReturnsPromise ==
  /\ pxPc = "wrapped" /\ member.kind \in {"promiseResolve", "promiseReject"}
  /\ pxPc' = "pending"
  /\ UNCHANGED <<member, targetName, observed>>
  /\ UNCHANGED <<pipeVars, azVars, ssmVars, routerVars, errVars, lpVars, pgVars>>

\* the promise of the method resolves
PxPromiseResolves ==
  /\ pxPc = "pending" /\ member.kind = "promiseResolve"
  /\ observed' = Observed("resolve", member.result, NoError)
  /\ pxPc' = "done"
  /\ UNCHANGED <<member, targetName>>
  /\ UNCHANGED <<pipeVars, azVars, ssmVars, routerVars, errVars, lpVars, pgVars>>

\* the promise of the method rejects: the catch callback
PxPromiseRejects ==
  /\ pxPc = "pending" /\ member.kind = "promiseReject"
  /\ observed' = Observed("reject", "", Trap(targetName, member.error))
  /\ pxPc' = "done"
  /\ UNCHANGED <<member, targetName>>
  /\ UNCHANGED <<pipeVars, azVars, ssmVars, routerVars, errVars, lpVars, pgVars>>

ProxyNext ==
  \/ PxGetField \/ PxGetFunction \/ PxCallReturns \/ PxCallThrows
  \/ PxCallReturnsPromise \/ PxPromiseResolves \/ PxPromiseRejects

(***************************************************************************)
(* Claims about dependencyErrorProxy.                                      *)
(***************************************************************************)
\* C5: whether the method throws or returns a promise that rejects, for every
\* thrown or rejected value without the status-code capability (null,
\* undefined and non-Error values included) the caller observes a
\* dependencyError (code dependencyError, status 502) whose target is
\* targetName; a call that returns or resolves yields the result unchanged.
C5_UnclassifiedBecomesDependencyError ==
  pxPc = "done" =>
    /\ (member.kind \in {"syncThrow", "promiseReject"}
          /\ (Falsy(member.error) \/ ~isStatusCodeProvider(member.error))) =>
         /\ observed.kind = (IF member.kind = "syncThrow" THEN "throw" ELSE "reject")
         /\ observed.error.code = "dependencyError"
         /\ observed.error.getStatusCode = "function"
         /\ observed.error.status = 502
         /\ observed.error.target = targetName
    /\ member.kind = "syncReturn" => observed = Observed("return", member.result, NoError)
    /\ member.kind = "promiseResolve" =>
         observed = Observed("resolve", member.result, NoError)

\* C6: an error thrown or rejected that already has a getStatusCode function
\* reaches the caller as that same error value, on the synchronous and on the
\* promise path; reading a non-callable field returns the target's value and
\* neither wraps nor raises.
C6_ClassifiedPassesThrough ==
  pxPc = "done" =>
    /\ (member.kind \in {"syncThrow", "promiseReject"}
          /\ isStatusCodeProvider(member.error)) =>
         /\ observed.kind = (IF member.kind = "syncThrow" THEN "throw" ELSE "reject")
         /\ observed.error = member.error
    /\ member.kind = "field" => observed = Observed("value", member.result, NoError)

\* C6 witness: a promise rejected with a managed internalServerError, and the
\* caller got that rejection.
C6_Witness ==
  /\ pxPc = "done" /\ member.kind = "promiseReject"
  /\ member.error = internalServerError("u3", "This is a managed error")
  /\ observed.kind = "reject" /\ observed.error.code = "internalServerError"

(***************************************************************************)
(* SSMParameterStoreConfigService.  get is an async function: the part up  *)
(* to "await this.cache.parameters" runs in one step (SsmGet), the rest    *)
(* when the cached promise has settled (SsmGetResume).                     *)
(***************************************************************************)
MaxTtl == 1

\* options.ttl: undefined, or a number of milliseconds
TtlOptions ==
  {[ttlDefined |-> FALSE, ttl |-> 0]} \cup { [ttlDefined |-> TRUE, ttl |-> t] : t \in 0..MaxTtl }

NoCache == [defined |-> FALSE, parameters |-> 0, timestamp |-> 0]
\* this.cache = { parameters: <promise of fetch f>, timestamp }
Cache(f, timestamp) == [defined |-> TRUE, parameters |-> f, timestamp |-> timestamp]

\* the arguments of the get calls: (key, required)
CallArgs == { <<"present", TRUE>>, <<"missing", TRUE>>, <<"missing", FALSE>> }

\* "seen" is the version of the store at the time of the call
IdleCaller ==
  [pc |-> "idle", key |-> "", required |-> FALSE, awaiting |-> 0, result |-> NoOutcome,
   seen |-> 0]

\* isCachePerished(now)
isCachePerishedIgnoresTimestamp(c, opts, t) ==
  IF ~c.defined THEN TRUE
  ELSE IF ~opts.ttlDefined THEN FALSE
  ELSE opts.ttl <= t

isCachePerishedReversed(c, opts, t) ==
  IF ~c.defined THEN TRUE
  ELSE IF ~opts.ttlDefined THEN FALSE
  ELSE (c.timestamp + opts.ttl) >= t

isCachePerished(c, opts, t) ==
  IF ~c.defined THEN TRUE
  ELSE IF ~opts.ttlDefined THEN FALSE
  ELSE (c.timestamp + opts.ttl) <= t

\* the version of the store a fetch has read: the store answers when the
\* fetch settles (now, for a fetch that is settling)
FetchedVersion(f) == IF fetches[f].state = "pending" THEN store ELSE fetches[f].read

\* the parameter map a fetch resolves with: the value of "present" names the
\* fetch it came from and the version of the store it read
ResolvedValue(f, key) ==
  IF key = "present" THEN "value" \o ToString(f) \o "v" \o ToString(FetchedVersion(f))
  ELSE "undefined"

configurationError(id, message) ==
  buildError(id, [code |-> "configurationError", target |-> "", message |-> message,
                  details |-> NoDetails], INTERNAL_SERVER_ERROR)

SsmInit ==
  /\ options \in TtlOptions
  /\ cache = NoCache /\ fetches = <<>> /\ now = 0
  /\ callers = [c \in 1..MaxCalls |-> IdleCaller]
  /\ store = 0

\* get(key, required) is called: the synchronous part
SsmGet(c, key, required) ==
  /\ callers[c].pc = "idle"
  /\ \A d \in 1..(c-1) : callers[d].pc # "idle"
  /\ IF isCachePerished(cache, options, now)
     THEN /\ fetches' = Append(fetches, [startedAt |-> now, state |-> "pending", read |-> 0])
          /\ cache' = Cache(Len(fetches) + 1, now)
     ELSE UNCHANGED <<fetches, cache>>
  /\ callers' = [callers EXCEPT ![c] =
       [pc |-> "awaiting", key |-> key, required |-> required,
        awaiting |-> cache'.parameters, result |-> NoOutcome, seen |-> store]]
  /\ UNCHANGED <<options, now, store>>
  /\ UNCHANGED <<pipeVars, azVars, proxyVars, routerVars, errVars, lpVars, pgVars>>

\* what get settles with once the awaited promise of fetch f has settled in
\* state st
GetResult(f, st, key, required) ==
  IF st = "rejected"
  THEN Raised(plainError("fetch" \o ToString(f), "getParametersByPath failed"))
  ELSE IF ResolvedValue(f, key) # "undefined" THEN Ok(ResolvedValue(f, key))
  ELSE IF required
    THEN Raised(configurationError("configurationError:" \o key,
                                   "Missing configuration value for " \o key))
    ELSE Ok("undefined")

\* the get calls awaiting the promise of fetch f continue, in the microtasks
\* that follow its settling
ResumeAwaiting(f, st) ==
  [c \in DOMAIN callers |->
     IF callers[c].pc = "awaiting" /\ callers[c].awaiting = f
     THEN [callers[c] EXCEPT !.pc = "done",
                             !.result = GetResult(f, st, callers[c].key, callers[c].required)]
     ELSE callers[c]]

\* the promise returned by getParameters resolves
SsmFetchResolves(f) ==
  /\ fetches[f].state = "pending"
  /\ fetches' = [fetches EXCEPT ![f].state = "resolved", ![f].read = store]
  /\ callers' = ResumeAwaiting(f, "resolved")
  /\ UNCHANGED <<options, cache, now, store>>
  /\ UNCHANGED <<pipeVars, azVars, proxyVars, routerVars, errVars, lpVars, pgVars>>

\* getParameters rejects and the failed entry is dropped from the cache
SsmFetchRejectsEvicts(f) ==
  /\ fetches[f].state = "pending"
  /\ fetches' = [fetches EXCEPT ![f].state = "rejected"]
  /\ callers' = ResumeAwaiting(f, "rejected")
  /\ cache' = IF cache.parameters = f THEN NoCache ELSE cache
  /\ UNCHANGED <<options, now, store>>
  /\ UNCHANGED <<pipeVars, azVars, proxyVars, routerVars, errVars, lpVars, pgVars>>

\* the promise returned by getParameters rejects
SsmFetchRejects(f) ==
  /\ fetches[f].state = "pending"
  /\ fetches' = [fetches EXCEPT ![f].state = "rejected"]
  /\ callers' = ResumeAwaiting(f, "rejected")
  /\ UNCHANGED <<options, cache, now, store>>
  /\ UNCHANGED <<pipeVars, azVars, proxyVars, routerVars, errVars, lpVars, pgVars>>

\* a get call made after the cached promise had settled continues
SsmGetResume(c) ==
  /\ callers[c].pc = "awaiting"
  /\ fetches[callers[c].awaiting].state # "pending"
  /\ callers' = [callers EXCEPT ![c].pc = "done",
                                ![c].result = GetResult(callers[c].awaiting,
                                                        fetches[callers[c].awaiting].state,
                                                        callers[c].key, callers[c].required)]
  /\ UNCHANGED <<options, cache, fetches, now, store>>
  /\ UNCHANGED <<pipeVars, azVars, proxyVars, routerVars, errVars, lpVars, pgVars>>

\* time passes
SsmTick ==
  /\ now < MaxTime
  /\ now' = now + 1
  /\ UNCHANGED <<options, cache, fetches, callers, store>>
  /\ UNCHANGED <<pipeVars, azVars, proxyVars, routerVars, errVars, lpVars, pgVars>>

SsmNext ==
  \/ \E c \in 1..MaxCalls, a \in CallArgs : SsmGet(c, a[1], a[2])
  \/ \E f \in DOMAIN fetches : SsmFetchResolves(f)
  \/ \E f \in DOMAIN fetches : SsmFetchRejects(f)
  \/ \E c \in 1..MaxCalls : SsmGetResume(c)
  \/ SsmTick

(***************************************************************************)
(* Claims about SSMParameterStoreConfigService.                            *)
(***************************************************************************)
Called == { c \in DOMAIN callers : callers[c].pc # "idle" }
FirstFetchInFlight == fetches # <<>> /\ fetches[1].state = "pending"

\* C7 as stated: for any number of get calls issued before the first fetch has
\* resolved, exactly one underlying fetch is started and all callers await
\* that same in-flight result.
C7_OneFetchWhileFirstInFlight ==
  FirstFetchInFlight =>
    /\ Len(fetches) = 1
    /\ \A c \in Called : callers[c].awaiting = 1

\* C7 amended: the same, for the get calls issued less than ttl after the first
\* get when a TTL is configured (and for all of them when none is).
C7_OneFetchWhileFirstInFlightAndFresh ==
  (FirstFetchInFlight /\ (options.ttlDefined => now < fetches[1].startedAt + options.ttl)) =>
    /\ Len(fetches) = 1
    /\ \A c \in Called : callers[c].awaiting = 1 /\ callers[c].pc = "awaiting"

\* C7 witness: three get calls share the one fetch in flight under a TTL.
C7_Witness ==
  /\ FirstFetchInFlight /\ options.ttlDefined /\ Len(fetches) = 1
  /\ Cardinality(Called) >= 3
  /\ \A c \in Called : callers[c].awaiting = 1 /\ callers[c].pc = "awaiting"

\* the get calls made in this step
Calling == { c \in DOMAIN callers : callers[c].pc = "idle" /\ callers'[c].pc # "idle" }

\* C8: with a TTL, a get issued when the cached value is older than the TTL
\* starts exactly one refresh fetch, which becomes the cached one; a get issued
\* while the cached value is younger than its TTL (concurrent with the fetch in
\* flight or not) starts no fetch.  The age is counted from the time the fetch
\* was started.
C8_RefreshOncePerTtl ==
  /\ [](cache.defined => cache.timestamp = fetches[cache.parameters].startedAt)
  /\ [][ \A c \in Calling :
           (options.ttlDefined /\ cache.defined) =>
             /\ now - fetches[cache.parameters].startedAt > options.ttl =>
                  /\ Len(fetches') = Len(fetches) + 1
                  /\ cache' = Cache(Len(fetches'), now)
                  /\ fetches'[Len(fetches')] = [startedAt |-> now, state |-> "pending", read |-> 0]
                  /\ callers'[c].awaiting = Len(fetches')
             /\ now - fetches[cache.parameters].startedAt < options.ttl =>
                  /\ fetches' = fetches /\ cache' = cache
                  /\ callers'[c].awaiting = cache.parameters ]_vars

\* C8 witness: the first fetch was started at 0 with ttl 1; the second get, at
\* 2, started the refresh, and the third shares that refresh in flight.
C8_Witness ==
  /\ options = [ttlDefined |-> TRUE, ttl |-> 1]
  /\ Len(fetches) = 2 /\ fetches[1].startedAt = 0 /\ fetches[2].startedAt = 2
  /\ fetches[2].state = "pending" /\ cache = Cache(2, 2)
  /\ callers[2].awaiting = 2 /\ callers[2].pc = "awaiting"
  /\ callers[3].awaiting = 2 /\ callers[3].pc = "awaiting"

(***************************************************************************)
(* httpRouter and runHttp.  A path is a string; Tokens gives its lexical   *)
(* pieces ("/" , the percent escape %2F, and runs of other characters).    *)
(***************************************************************************)
MaxRoutes == 2

Lit(text) == [kind |-> "literal", text |-> text]
Par(name) == [kind |-> "parameter", text |-> name]

\* route specs: "/users/:id", "/users/me", "/:a/:b", "/users"
RouteSpecs ==
  { <<Lit("users"), Par("id")>>, <<Lit("users"), Lit("me")>>,
    <<Par("a"), Par("b")>>, <<Lit("users")>> }

RouterMethodSets == { {"get"}, {"get", "post"} }

\* Object.keys(router): the declared routes, in declaration order, no spec twice
RouteTables ==
  { t \in UNION { [1..n -> [spec : RouteSpecs, methods : RouterMethodSets]] : n \in 1..MaxRoutes } :
      \A i, j \in DOMAIN t : i # j => t[i].spec # t[j].spec }

SubPaths == {"", "/users/5", "/users/me", "/unknown", "/users", "/users/5/", "/users/a%2Fb"}

Tokens(path) ==
  CASE path = "" -> <<>>
    [] path = "/users/5" -> <<"/", "users", "/", "5">>
    [] path = "/users/me" -> <<"/", "users", "/", "me">>
    [] path = "/unknown" -> <<"/", "unknown">>
    [] path = "/users" -> <<"/", "users">>
    [] path = "/users/5/" -> <<"/", "users", "/", "5", "/">>
    [] path = "/users/a%2Fb" -> <<"/", "users", "/", "a", "%2F", "b">>

\* decodeURIComponent, token by token
decodeURIComponent(tokens) ==
  [i \in DOMAIN tokens |-> IF tokens[i] = "%2F" THEN "/" ELSE tokens[i]]

\* the pieces of a path between its "/" characters
RECURSIVE SplitOnSlash(_, _)
SplitOnSlash(tokens, pieces) ==
  IF tokens = <<>> THEN pieces
  ELSE IF Head(tokens) = "/" THEN SplitOnSlash(Tail(tokens), Append(pieces, ""))
  ELSE SplitOnSlash(Tail(tokens),
         [pieces EXCEPT ![Len(pieces)] = pieces[Len(pieces)] \o Head(tokens)])

\* the segments a path offers to a pattern: after the leading "/", without the
\* optional trailing "/"; <<"?">> marks a path pathToRegexp matches with nothing
Segments(tokens) ==
  LET pieces == SplitOnSlash(tokens, <<"">>)
      body == Tail(pieces)
  IN IF pieces[1] # "" THEN <<"?">>
     ELSE IF Len(body) > 1 /\ body[Len(body)] = "" THEN SubSeq(body, 1, Len(body) - 1)
     ELSE body

\* pathToRegexp(spec).exec(subPath) succeeds
PathMatches(spec, segments) ==
  /\ Len(segments) = Len(spec)
  /\ \A p \in DOMAIN spec :
       IF spec[p].kind = "literal" THEN segments[p] = spec[p].text ELSE segments[p] # ""

\* pathToRegexp.parse(spec).filter(object): the positions of the parameters
KeyPositions(spec) == SelectSeq([p \in DOMAIN spec |-> p], LAMBDA p : spec[p].kind = "parameter")

\* event.parameters: pairs <<name, value>>
Lookup(parameters, name) ==
  IF \E q \in parameters : q[1] = name
  THEN (CHOOSE q \in parameters : q[1] = name)[2] ELSE ""

SetParameter(parameters, name, value) ==
  { q \in parameters : q[1] # name } \cup {<<name, value>>}

\* the loop over pathEvaluation: group index + 1 goes to key index
RECURSIVE MergePathParameters(_, _, _, _)
MergePathParameters(parameters, spec, segments, index) ==
  IF index > Len(KeyPositions(spec)) THEN parameters
  ELSE MergePathParameters(
         IF segments[KeyPositions(spec)[index]] # ""
         THEN SetParameter(parameters, spec[KeyPositions(spec)[index]].text,
                           segments[KeyPositions(spec)[index]])
         ELSE parameters,
         spec, segments, index + 1)

\* the route the for loop stops at: 0 when it runs to its end
LastMatch(table, segments) ==
  IF \E i \in DOMAIN table : PathMatches(table[i].spec, segments)
  THEN CHOOSE i \in DOMAIN table :
         /\ PathMatches(table[i].spec, segments)
         /\ \A j \in DOMAIN table : PathMatches(table[j].spec, segments) => j <= i
  ELSE 0

RECURSIVE FirstMatchFrom(_, _, _)
FirstMatchFrom(table, segments, i) ==
  IF i > Len(table) THEN 0
  ELSE IF PathMatches(table[i].spec, segments) THEN i
  ELSE FirstMatchFrom(table, segments, i + 1)

FirstMatch(table, segments) == FirstMatchFrom(table, segments, 1)

RouterPc(at, route) == [at |-> at, route |-> route]

\* what the user function does
HandlerBehaviours == {"undefined", "null", "response", "object", "throws"}

RouterInit ==
  /\ routes \in RouteTables
  /\ rEvent \in { [httpMethod |-> m, url |-> "/api" \o p, parameters |-> {<<"proxy", p>>} \cup q] :
                    m \in {"get", "post", "delete"}, p \in SubPaths,
                    q \in { {}, {<<"id", "query">>} } }
  /\ handlerBehaviour \in HandlerBehaviours
  /\ rPc = RouterPc("start", 0) /\ rOutcome = NoOutcome

\* const subPath = decodeURIComponent(arg.event.parameters[parameterName] || "")
SubPathSegments == Segments(decodeURIComponent(Tokens(Lookup(rEvent.parameters, "proxy"))))

\* the router function runs: no pattern matches
RtNotFound ==
  /\ rPc.at = "start"
  /\ FirstMatch(routes, SubPathSegments) = 0
  /\ rOutcome' = Raised(notFoundError("notFound:router", rEvent.url, "No suitable route found."))
  /\ rPc' = RouterPc("done", 0)
  /\ UNCHANGED <<routes, rEvent, handlerBehaviour>>
  /\ UNCHANGED <<pipeVars, azVars, proxyVars, ssmVars, errVars, lpVars, pgVars>>

\* the router function runs: the pattern has no handler for the method
RtMethodNotAllowed ==
  /\ rPc.at = "start"
  /\ FirstMatch(routes, SubPathSegments) # 0
  /\ rEvent.httpMethod \notin routes[FirstMatch(routes, SubPathSegments)].methods
  /\ rOutcome' = Raised(methodNotAllowedError("methodNotAllowed:router",
                          "Method " \o rEvent.httpMethod \o " is not allowed."))
  /\ rPc' = RouterPc("done", 0)
  /\ UNCHANGED <<routes, rEvent, handlerBehaviour>>
  /\ UNCHANGED <<pipeVars, azVars, proxyVars, ssmVars, errVars, lpVars, pgVars>>

\* the router function runs: the path parameters are merged and runHttp calls
\* the handler
RtDispatch ==
  /\ rPc.at = "start"
  /\ FirstMatch(routes, SubPathSegments) # 0
  /\ rEvent.httpMethod \in routes[FirstMatch(routes, SubPathSegments)].methods
  /\ rEvent' = [rEvent EXCEPT !.parameters =
       MergePathParameters(rEvent.parameters,
                           routes[FirstMatch(routes, SubPathSegments)].spec,
                           SubPathSegments, 1)]
  /\ rPc' = RouterPc("running", FirstMatch(routes, SubPathSegments))
  /\ UNCHANGED <<routes, handlerBehaviour, rOutcome>>
  /\ UNCHANGED <<pipeVars, azVars, proxyVars, ssmVars, errVars, lpVars, pgVars>>

\* runHttp passing every truthy result through ok()
runHttpWrapsAll(behaviour, url) ==
  CASE behaviour = "throws" -> Raised(plainError("handler", "boom"))
    [] behaviour \in {"response", "object"} -> Ok("ok(object)")
    [] OTHER -> Raised(notFoundError("notFound:runHttp", url,
                                     "The target " \o url \o " could not be found."))

\* runHttp after "await func(arg)"; undefined and null are falsy
runHttp(behaviour, url) ==
  CASE behaviour = "throws" -> Raised(plainError("handler", "boom"))
    [] behaviour = "response" -> Ok("HttpUnoResponse")
    [] behaviour = "object" -> Ok("ok(object)")
    [] OTHER -> Raised(notFoundError("notFound:runHttp", url,
                                     "The target " \o url \o " could not be found."))

\* the handler settles and runHttp finishes
RtHandlerSettles ==
  /\ rPc.at = "running"
  /\ rOutcome' = runHttp(handlerBehaviour, rEvent.url)
  /\ rPc' = RouterPc("done", rPc.route)
  /\ UNCHANGED <<routes, rEvent, handlerBehaviour>>
  /\ UNCHANGED <<pipeVars, azVars, proxyVars, ssmVars, errVars, lpVars, pgVars>>

RouterNext == RtNotFound \/ RtMethodNotAllowed \/ RtDispatch \/ RtHandlerSettles

(***************************************************************************)
(* Claims about httpRouter.                                                *)
(***************************************************************************)
Dispatched == rPc.at # "start"
\* the handler that ran: the route it belongs to, 0 when none ran
HandlerRun == rPc.route
PathMatching == { i \in DOMAIN routes : PathMatches(routes[i].spec, SubPathSegments) }
PathAndMethodMatching == { i \in PathMatching : rEvent.httpMethod \in routes[i].methods }
RouterRaised(code) == rPc.at = "done" /\ rOutcome.kind = "err" /\ rOutcome.error.code = code
\* every named parameter of route i has the text of its segment
ParametersMerged(i) ==
  \A p \in DOMAIN routes[i].spec :
    routes[i].spec[p].kind = "parameter" =>
      Lookup(rEvent.parameters, routes[i].spec[p].text) = SubPathSegments[p]

\* C9 as stated: if some pattern matches the path and defines a handler for the
\* method, that handler (the first such) executes with the path parameters
\* merged; if the path matches a pattern but the method does not,
\* methodNotAllowedError; if no pattern matches, notFoundError; no handler runs
\* in the two error cases.
C9_SomeMatchWithMethodRuns ==
  Dispatched =>
    IF PathAndMethodMatching # {}
    THEN /\ HandlerRun \in PathAndMethodMatching
         /\ \A j \in PathAndMethodMatching : HandlerRun <= j
         /\ ParametersMerged(HandlerRun)
    ELSE IF PathMatching # {}
    THEN RouterRaised("methodNotAllowed") /\ HandlerRun = 0
    ELSE RouterRaised("notFound") /\ HandlerRun = 0

\* C9 amended: the first pattern, in declaration order, that matches the path
\* decides.  If it defines a handler for the method, that handler executes
\* with the path parameters merged; if it does not, methodNotAllowedError
\* (later patterns are not tried); if no pattern matches, notFoundError; no
\* handler runs in the two error cases.
C9_FirstPathMatchDecides ==
  Dispatched =>
    IF PathMatching = {} THEN RouterRaised("notFound") /\ HandlerRun = 0
    ELSE \E f \in PathMatching :
           /\ \A j \in PathMatching : f <= j
           /\ IF rEvent.httpMethod \in routes[f].methods
              THEN HandlerRun = f /\ ParametersMerged(f)
              ELSE RouterRaised("methodNotAllowed") /\ HandlerRun = 0

\* C9 witness: routes {"/users/:id": {get}}, path /users/5, method get: the
\* handler ran with parameters.id = "5" (over the query parameter id).
C9_Witness ==
  /\ routes = <<[spec |-> <<Lit("users"), Par("id")>>, methods |-> {"get"}]>>
  /\ rPc = RouterPc("done", 1) /\ rEvent.httpMethod = "get"
  /\ rEvent.parameters = {<<"proxy", "/users/5">>, <<"id", "5">>}
  /\ rOutcome = Ok("ok(object)")

(***************************************************************************)
(* Error values as objects.  An object carries its own "frozen" flag       *)
(* (Object.freeze): a write to a frozen object is rejected and changes     *)
(* nothing, a write to any other object takes effect.  The data object,    *)
(* the details array and each element of it are objects of their own,      *)
(* reached from the error by reference.                                    *)
(***************************************************************************)
MaxWrites == 2

JsUndefinedObject == [defined |-> FALSE, frozen |-> FALSE, contents |-> ""]

\* a data object { k: contents }, frozen or not by its creator
DataObject(frozen, contents) == [defined |-> TRUE, frozen |-> frozen, contents |-> contents]

\* one ErrorData element of a details array
DetailObject(frozen, code, message, data) ==
  [frozen |-> frozen, code |-> code, message |-> message, data |-> data]

JsUndefinedArray == [defined |-> FALSE, frozen |-> FALSE, elems |-> <<>>]

ArrayObject(frozen, elems) == [defined |-> TRUE, frozen |-> frozen, elems |-> elems]

\* Object.freeze(o): shallow, the objects o refers to are left as they are
ObjectFreeze(o) == [o EXCEPT !.frozen = TRUE]

\* the data objects a caller may hand to a constructor
DataInputs == {JsUndefinedObject} \cup { DataObject(fr, "v") : fr \in BOOLEAN }

\* the ErrorData lists a caller may hand to validationError
ErrorDataInputs ==
  {<<>>} \cup { <<DetailObject(fr, "required", "missing", d)>> : fr \in BOOLEAN, d \in DataInputs }

\* the details arrays a caller may hand to buildError
DetailsInputs ==
  {JsUndefinedArray} \cup { ArrayObject(fr, es) : fr \in BOOLEAN, es \in ErrorDataInputs }

\* buildError, on objects: new Error(message), the four assignments, the
\* getStatusCode closure, Object.freeze(error)
buildErrorObject(errorData, httpStatusCode) ==
  ObjectFreeze([built |-> TRUE, frozen |-> FALSE,
                message |-> errorData.message, code |-> errorData.code,
                data |-> errorData.data, details |-> errorData.details,
                target |-> errorData.target, status |-> httpStatusCode,
                payload |-> JsUndefinedObject])

notFoundErrorObject(target, data) ==
  buildErrorObject([code |-> "notFound", data |-> data, details |-> JsUndefinedArray,
                    message |-> "The target " \o target \o " could not be found.",
                    target |-> target], NOT_FOUND)

\* errors.map((e) => ({ code: e.code, data: e.data, ... })): a new array of
\* new objects, none of them frozen; each data is the caller's object
validationErrorObject(errors) ==
  buildErrorObject([code |-> "validationError", data |-> JsUndefinedObject,
                    details |-> ArrayObject(FALSE,
                       [i \in 1..Len(errors) |->
                          DetailObject(FALSE, errors[i].code, errors[i].message, errors[i].data)]),
                    message |-> "Validation failed", target |-> ""], BAD_REQUEST)

\* buildErrorWithCustomPayload: the keys of the payload are copied onto the
\* error, getPayload returns the payload object itself
buildErrorWithCustomPayload(message, errorPayload, httpStatusCode) ==
  ObjectFreeze([built |-> TRUE, frozen |-> FALSE,
                message |-> message, code |-> errorPayload.code,
                data |-> errorPayload.data, details |-> JsUndefinedArray,
                target |-> "", status |-> httpStatusCode,
                payload |-> DataObject(errorPayload.frozen, errorPayload.code)])

ErrorConstructions ==
  { buildErrorObject([code |-> "custom", data |-> d, details |-> ds,
                      message |-> "m", target |-> "t"], INTERNAL_SERVER_ERROR) :
      d \in DataInputs, ds \in DetailsInputs }
  \cup { notFoundErrorObject("t", d) : d \in DataInputs }
  \cup { validationErrorObject(es) : es \in ErrorDataInputs }
  \cup { buildErrorWithCustomPayload("m", [code |-> "invalid_grant", data |-> d, frozen |-> fr],
                                     BAD_REQUEST) : d \in DataInputs, fr \in BOOLEAN }

ErrInit ==
  /\ errObj \in ErrorConstructions
  /\ errBuilt = errObj
  /\ errWrites = 0

ErrFrame == UNCHANGED <<errBuilt, pipeVars, azVars, proxyVars, ssmVars, routerVars, lpVars, pgVars>>

\* error.f = v, f one of code, message, target; error.getStatusCode = () => v
ErrWriteField ==
  /\ errWrites < MaxWrites
  /\ errWrites' = errWrites + 1
  /\ \E f \in {"code", "message", "target", "status"} :
       errObj' = IF errObj.frozen THEN errObj
                 ELSE IF f = "status" THEN [errObj EXCEPT !.status = 0]
                 ELSE [errObj EXCEPT ![f] = "changed"]
  /\ ErrFrame

\* error.data = {...}; error.details = [...]
ErrReplaceMember ==
  /\ errWrites < MaxWrites
  /\ errWrites' = errWrites + 1
  /\ \/ errObj' = IF errObj.frozen THEN errObj
                  ELSE [errObj EXCEPT !.data = DataObject(FALSE, "changed")]
     \/ errObj' = IF errObj.frozen THEN errObj
                  ELSE [errObj EXCEPT !.details = ArrayObject(FALSE, <<>>)]
  /\ ErrFrame

\* error.data.k = v
ErrWriteData ==
  /\ errWrites < MaxWrites
  /\ errObj.data.defined
  /\ errWrites' = errWrites + 1
  /\ errObj' = IF errObj.data.frozen THEN errObj
               ELSE [errObj EXCEPT !.data.contents = "changed"]
  /\ ErrFrame

\* error.details.push(e)
ErrPushDetail ==
  /\ errWrites < MaxWrites
  /\ errObj.details.defined
  /\ errWrites' = errWrites + 1
  /\ errObj' = IF errObj.details.frozen THEN errObj
               ELSE [errObj EXCEPT !.details.elems =
                       Append(@, DetailObject(FALSE, "pushed", "changed", JsUndefinedObject))]
  /\ ErrFrame

\* error.details[i].message = v
ErrWriteDetail ==
  /\ errWrites < MaxWrites
  /\ errObj.details.defined
  /\ errWrites' = errWrites + 1
  /\ \E i \in 1..Len(errObj.details.elems) :
       errObj' = IF errObj.details.elems[i].frozen THEN errObj
                 ELSE [errObj EXCEPT !.details.elems[i].message = "changed"]
  /\ ErrFrame

\* error.getPayload().k = v
ErrWritePayload ==
  /\ errWrites < MaxWrites
  /\ errObj.payload.defined
  /\ errWrites' = errWrites + 1
  /\ errObj' = IF errObj.payload.frozen THEN errObj
               ELSE [errObj EXCEPT !.payload.contents = "changed"]
  /\ ErrFrame

ErrNext ==
  ErrWriteField \/ ErrReplaceMember \/ ErrWriteData \/ ErrPushDetail \/ ErrWriteDetail
    \/ ErrWritePayload

(***************************************************************************)
(* Claims about error values.                                              *)
(***************************************************************************)
\* C11: an error value produced by a constructor of the error model is
\* immutable: whatever writes its holders attempt, its code, message,
\* target, data (with its contents), details (with its elements) and the
\* value of getStatusCode() stay what they were when the constructor
\* returned.
C11_ErrorImmutable ==
  errObj.built =>
    /\ errObj.code = errBuilt.code /\ errObj.message = errBuilt.message
    /\ errObj.target = errBuilt.target /\ errObj.status = errBuilt.status
    /\ errObj.data = errBuilt.data
    /\ errObj.details = errBuilt.details

\* what does hold: the members of the error object itself never change
C11_OwnMembersImmutable ==
  errObj.built =>
    /\ errObj.code = errBuilt.code /\ errObj.message = errBuilt.message
    /\ errObj.target = errBuilt.target /\ errObj.status = errBuilt.status
    /\ errObj.data.defined = errBuilt.data.defined
    /\ errObj.details.defined = errBuilt.details.defined

(***************************************************************************)
(* Claims about runHttp.                                                   *)
(***************************************************************************)
\* C12: the http handler wrapper normalises the result of the user
\* function: an undefined result raises notFoundError whose target is the
\* event url, a result that is an HttpUnoResponse is passed back as it is,
\* any other object is wrapped with ok(), and an error raised by the user
\* function propagates as the same error.
C12_RunHttpNormalises ==
  (rPc.at = "done" /\ rPc.route # 0) =>
    /\ handlerBehaviour = "undefined" =>
         /\ rOutcome.kind = "err"
         /\ rOutcome.error.code = "notFound" /\ rOutcome.error.status = NOT_FOUND
         /\ rOutcome.error.target = rEvent.url
    /\ handlerBehaviour = "response" => rOutcome = Ok("HttpUnoResponse")
    /\ handlerBehaviour = "object" => rOutcome = Ok("ok(object)")
    /\ handlerBehaviour = "throws" => rOutcome = Raised(plainError("handler", "boom"))

C12_Witness ==
  /\ rPc.at = "done" /\ rPc.route # 0
  /\ handlerBehaviour = "undefined"
  /\ rOutcome.kind = "err" /\ rOutcome.error.target = rEvent.url

(***************************************************************************)
(* Claims about the completion callback of the Azure adapter.              *)
(***************************************************************************)
\* C13: every invocation of the Azure adapter calls context.done exactly
\* once: never twice, and once the invocation is over (completed, or left by
\* an error thrown synchronously or by an unhandled rejection) never zero
\* times.
C13_DoneExactlyOnce ==
  /\ Len(doneCalls) <= 1
  /\ azPc \in {"done", "threw", "unhandledRejection"} => Len(doneCalls) = 1

(***************************************************************************)
(* Claims about failed fetches of SSMParameterStoreConfigService.          *)
(***************************************************************************)
\* the get calls that have failed with the error of the rejected fetch f
FailedWith(f) ==
  { c \in DOMAIN callers :
      /\ callers[c].pc = "done" /\ callers[c].awaiting = f
      /\ callers[c].result.kind = "err"
      /\ callers[c].result.error.id = "fetch" \o ToString(f) }

\* C14: a failed fetch is cached like a successful one.  A get issued while
\* the cached fetch is a rejected one and its TTL has not elapsed (at any
\* time when no TTL is configured) starts no fetch and awaits that rejected
\* promise; every get that awaited a rejected fetch fails with the error of
\* that fetch; without a TTL at most one fetch is ever started.
C14_FailedFetchCached ==
  /\ [](/\ ~options.ttlDefined => Len(fetches) <= 1
        /\ \A c \in DOMAIN callers :
             (/\ callers[c].pc = "done" /\ callers[c].awaiting # 0
              /\ fetches[callers[c].awaiting].state = "rejected")
               => c \in FailedWith(callers[c].awaiting))
  /\ [][ \A c \in Calling :
           (/\ cache.defined
            /\ fetches[cache.parameters].state = "rejected"
            /\ options.ttlDefined => now < cache.timestamp + options.ttl)
             => /\ fetches' = fetches /\ cache' = cache
                /\ callers'[c].awaiting = cache.parameters ]_vars

\* C14 witness: without a TTL the only fetch was rejected; two get calls have
\* failed with its error and a third, made after the rejection and at a later
\* time, awaits the same rejected promise.
C14_Witness ==
  /\ ~options.ttlDefined /\ Len(fetches) = 1 /\ fetches[1].state = "rejected"
  /\ FailedWith(1) = {1, 2}
  /\ callers[1].result = callers[2].result
  /\ callers[3].pc = "awaiting" /\ callers[3].awaiting = 1
  /\ now > fetches[1].startedAt

(***************************************************************************)
(* lambdaProxy.  The handler is an async function: it runs up to the       *)
(* settling of func (LpFuncSettles covers the code that follows, up to the *)
(* next await or the end) and, when the error logger returned a promise,   *)
(* resumes when that promise settles (LpLoggerSettles).                    *)
(***************************************************************************)
\* what func does: resolve with a result provider (whose proxy result is
\* defined or not), a plain object, undefined or null; reject with a result
\* provider, an Error with or without message, a string, undefined or null
LpFuncBehaviours ==
  {"provider", "providerOfNothing", "object", "undefined", "null",
   "throwsProvider", "throwsError", "throwsEmptyError", "throwsString",
   "throwsUndefined", "throwsNull"}

LpThrowing ==
  {"throwsProvider", "throwsError", "throwsEmptyError", "throwsString",
   "throwsUndefined", "throwsNull"}

\* options.errorLogger: absent (the default logger is used), or a function
\* that returns undefined, returns a promise that resolves or rejects, or
\* throws
LpLoggers == {"default", "returnsUndefined", "resolves", "rejects", "throws"}

\* options.cors: undefined, true, false, a string, the empty string
LpCorsOptions == {"undefined", "true", "false", "origin", "empty"}

LpTruthy(v) == v \notin {"undefined", "null", "false", "empty"}

\* an APIGatewayProxyResult: which class built it, from what, and the headers
ProxyResult(kind, of, headers) == [kind |-> kind, of |-> of, headers |-> headers]

NoProxyResult == ProxyResult("undefined", "", {})

\* isAPIGatewayProxyResultProvider(x): typeof x.getAPIGatewayProxyResult is
\* "function"; reading a member of undefined or null throws a TypeError
isAPIGatewayProxyResultProvider(x) ==
  CASE x \in {"undefined", "null", "throwsUndefined", "throwsNull"} -> "TypeError"
    [] x \in {"provider", "providerOfNothing", "throwsProvider"} -> "true"
    [] OTHER -> "false"

\* x.getAPIGatewayProxyResult()
getAPIGatewayProxyResult(x) ==
  IF x = "providerOfNothing" THEN NoProxyResult
  ELSE ProxyResult("own", x, {<<"Content-Type", "application/json">>})

\* error.message ? error.message : error.toString()
LpErrorText(x) ==
  CASE x = "throwsError" -> "message"
    [] x = "throwsEmptyError" -> "Error"
    [] x = "throwsString" -> "string"
    [] OTHER -> "TypeError"

\* lines 139-145: the proxy result of a result of func
LpResultOf(funcResult, path) ==
  IF LpTruthy(funcResult)
  THEN IF isAPIGatewayProxyResultProvider(funcResult) = "true"
       THEN getAPIGatewayProxyResult(funcResult)
       ELSE ProxyResult("OKResult", funcResult, {})
  ELSE ProxyResult("NotFoundError", path, {})

\* lines 149-151: the proxy result of an error thrown by func; the member
\* reads throw a TypeError when the thrown value is undefined or null
LpResultOfError(error) ==
  CASE error \in {"throwsUndefined", "throwsNull"} -> ProxyResult("TypeError", error, {})
    [] isAPIGatewayProxyResultProvider(error) = "true" -> getAPIGatewayProxyResult(error)
    [] OTHER -> ProxyResult("InternalServerError", LpErrorText(error), {})

\* { ...proxyResult.headers, "Access-Control-Allow-Origin": ... }
LpSpread(headers, name, value) ==
  { h \in headers : h[1] # name } \cup {<<name, value>>}

\* lines 168-179: the end of the handler
LpFinish(proxyResult, cors) ==
  IF proxyResult.kind = "undefined"
  THEN Raised(plainError("lambdaProxy", "proxyResult should not be null."))
  ELSE IF LpTruthy(cors)
  THEN Ok([proxyResult EXCEPT !.headers =
             LpSpread(@, "Access-Control-Allow-Origin",
                      IF cors = "origin" THEN "origin" ELSE "*")])
  ELSE Ok(proxyResult)

LpInit ==
  /\ lpFunc \in LpFuncBehaviours
  /\ lpLogger \in LpLoggers
  /\ lpCors \in LpCorsOptions
  /\ lpPc = "start" /\ lpResult = Ok(NoProxyResult) /\ loggerCalls = 0

LpFrame ==
  UNCHANGED <<lpFunc, lpLogger, lpCors, pipeVars, azVars, proxyVars, ssmVars, routerVars,
              errVars, pgVars>>

\* func resolves: lines 139-145, then 168-179
LpFuncResolves ==
  /\ lpPc = "start" /\ lpFunc \notin LpThrowing
  /\ lpResult' = LpFinish(LpResultOf(lpFunc, "path"), lpCors)
  /\ lpPc' = "settled"
  /\ UNCHANGED loggerCalls
  /\ LpFrame

\* func rejects with undefined or null: line 149 or 151 throws inside the
\* catch block and the handler rejects
LpFuncRejectsCatchThrows ==
  /\ lpPc = "start" /\ lpFunc \in LpThrowing
  /\ LpResultOfError(lpFunc).kind = "TypeError"
  /\ lpResult' = Raised(plainError("TypeError", "Cannot read properties of " \o lpFunc))
  /\ lpPc' = "settled"
  /\ UNCHANGED loggerCalls
  /\ LpFrame

\* func rejects: lines 149-165; the logger is called; a logger that throws
\* is caught, a logger that returns a promise is awaited
LpFuncRejects ==
  /\ lpPc = "start" /\ lpFunc \in LpThrowing
  /\ LpResultOfError(lpFunc).kind # "TypeError"
  /\ loggerCalls' = loggerCalls + 1
  /\ IF lpLogger \in {"default", "resolves", "rejects"}
     THEN /\ lpPc' = "awaitingLogger"
          /\ lpResult' = Ok(LpResultOfError(lpFunc))
     ELSE /\ lpPc' = "settled"
          /\ lpResult' = LpFinish(LpResultOfError(lpFunc), lpCors)
  /\ LpFrame

\* the promise of the logger settles (a rejection is caught): lines 168-179
LpLoggerSettles ==
  /\ lpPc = "awaitingLogger"
  /\ lpResult' = LpFinish(lpResult.value, lpCors)
  /\ lpPc' = "settled"
  /\ UNCHANGED loggerCalls
  /\ LpFrame

LpNext == LpFuncResolves \/ LpFuncRejectsCatchThrows \/ LpFuncRejects \/ LpLoggerSettles

(***************************************************************************)
(* Claims about lambdaProxy.                                               *)
(***************************************************************************)
LpCorsHeader ==
  { h \in lpResult.value.headers : h[1] = "Access-Control-Allow-Origin" }

\* C15: the handler of lambdaProxy resolves with an APIGatewayProxyResult
\* for every outcome of func and of the error logger and never rejects: a
\* truthy result gives its own proxy result or an OK result, a falsy one
\* the NotFound result for event.path, a thrown error its own proxy result
\* or an InternalServerError result; the logger is called once per failing
\* invocation and never on success; with options.cors set the header
\* Access-Control-Allow-Origin is "*" for true and the string otherwise.
C15_LambdaProxyAlwaysResolves ==
  lpPc = "settled" =>
    /\ lpResult.kind = "ok"
    /\ lpResult.value.kind =
         CASE lpFunc \in {"provider", "providerOfNothing", "throwsProvider"} -> "own"
           [] lpFunc = "object" -> "OKResult"
           [] lpFunc \in {"undefined", "null"} -> "NotFoundError"
           [] OTHER -> "InternalServerError"
    /\ loggerCalls = IF lpFunc \in LpThrowing THEN 1 ELSE 0
    /\ lpCors = "true" => LpCorsHeader = {<<"Access-Control-Allow-Origin", "*">>}
    /\ lpCors = "origin" => LpCorsHeader = {<<"Access-Control-Allow-Origin", "origin">>}

(***************************************************************************)
(* SSMParameterStoreConfigService.set.  The call occupies one of the call  *)
(* slots; putParameter either takes effect in the store or fails, and the  *)
(* step is the whole call, from set(key, value) to its settling.           *)
(***************************************************************************)
SetCaller(result) ==
  [pc |-> "done", key |-> "set", required |-> FALSE, awaiting |-> 0, result |-> result,
   seen |-> store]

\* set that also drops the cached parameters
SsmSetInvalidates(c) ==
  /\ callers[c].pc = "idle"
  /\ \A d \in 1..(c-1) : callers[d].pc # "idle"
  /\ store' = store + 1 /\ callers' = [callers EXCEPT ![c] = SetCaller(Ok("undefined"))]
  /\ cache' = NoCache
  /\ UNCHANGED <<options, fetches, now>>
  /\ UNCHANGED <<pipeVars, azVars, proxyVars, routerVars, errVars, lpVars, pgVars>>

\* set("present", value): await this.ssm.putParameter({...}).promise()
SsmSet(c) ==
  /\ callers[c].pc = "idle"
  /\ \A d \in 1..(c-1) : callers[d].pc # "idle"
  /\ \/ /\ store' = store + 1
        /\ callers' = [callers EXCEPT ![c] = SetCaller(Ok("undefined"))]
     \/ /\ store' = store
        /\ callers' = [callers EXCEPT ![c] =
                         SetCaller(Raised(plainError("putParameter", "putParameter failed")))]
  /\ UNCHANGED <<options, cache, fetches, now>>
  /\ UNCHANGED <<pipeVars, azVars, proxyVars, routerVars, errVars, lpVars, pgVars>>

SsmSetNext ==
  \/ \E c \in 1..MaxCalls : SsmGet(c, "present", TRUE)
  \/ \E f \in DOMAIN fetches : SsmFetchResolves(f)
  \/ \E f \in DOMAIN fetches : SsmFetchRejects(f)
  \/ \E c \in 1..MaxCalls : SsmGetResume(c)
  \/ SsmTick
  \/ \E c \in 1..MaxCalls : SsmSet(c)

(***************************************************************************)
(* Claims about set.                                                       *)
(***************************************************************************)
\* the set calls and the get calls made in this step
Setting == { c \in Calling : callers'[c].key = "set" }
Getting == { c \in Calling : callers'[c].key # "set" }

CacheFresh ==
  cache.defined /\ (options.ttlDefined => now < cache.timestamp + options.ttl)

\* the get call that started fetch f: the first of the calls awaiting it
Starter(f) ==
  CHOOSE c \in DOMAIN callers :
    /\ callers[c].awaiting = f
    /\ \A d \in DOMAIN callers : callers[d].awaiting = f => c <= d

\* C16 as stated: a get made after a set has completed, and served from the
\* cache entry that was there before the set, returns a value fetched before
\* the set.
C16_GetAfterSetReturnsOldValue ==
  \A c \in DOMAIN callers :
    (/\ callers[c].pc = "done" /\ callers[c].key = "present"
     /\ callers[c].result.kind = "ok"
     /\ callers[c].seen > callers[Starter(callers[c].awaiting)].seen)
      => fetches[callers[c].awaiting].read < callers[c].seen

\* C16 amended: set leaves the cache as it is.  A get made after a set has
\* taken effect, while the cache holds an entry whose TTL has not elapsed
\* (any entry when no TTL is configured), starts no fetch and awaits the
\* cached fetch; it returns the value that fetch read from the store, which
\* is fixed once the fetch has settled: the value from before the set when
\* the fetch settled before it, possibly the new one when the fetch was
\* still in flight.
C16_SetLeavesCache ==
  /\ [][ \A c \in Setting : cache' = cache /\ fetches' = fetches ]_vars
  /\ [][ \A c \in Getting :
           (store > 0 /\ CacheFresh) =>
              /\ fetches' = fetches /\ cache' = cache
              /\ callers'[c].awaiting = cache.parameters ]_vars
  /\ [][ \A f \in DOMAIN fetches :
           fetches[f].state = "resolved" => fetches'[f] = fetches[f] ]_vars
  /\ [](\A c \in DOMAIN callers :
          (/\ callers[c].pc = "done" /\ callers[c].key = "present"
           /\ fetches[callers[c].awaiting].state = "resolved")
            => /\ fetches[callers[c].awaiting].read <= store
               /\ callers[c].result =
                    Ok("value" \o ToString(callers[c].awaiting) \o "v"
                         \o ToString(fetches[callers[c].awaiting].read)))

\* C16 witness: without a TTL, a get fetched version 0, a set then put
\* version 1 in the store, and the get made after it returned the value of
\* version 0 from the one fetch.
C16_Witness ==
  /\ ~options.ttlDefined /\ store = 1
  /\ Len(fetches) = 1 /\ fetches[1].read = 0 /\ fetches[1].state = "resolved"
  /\ callers[1].pc = "done" /\ callers[1].result = Ok("value1v0")
  /\ callers[2].key = "set" /\ callers[2].result.kind = "ok"
  /\ callers[3].pc = "done" /\ callers[3].awaiting = 1 /\ callers[3].seen = 1
  /\ callers[3].result = Ok("value1v0")

(***************************************************************************)
(* getParameters, the paginated fetch.  One step is one turn of the        *)
(* do-while loop: the getParametersByPath round trip, its reply, and the   *)
(* code up to the next request or to the settling of the promise.          *)
(***************************************************************************)
MaxIterations == 2

DefaultIterations == 10

\* options.numberOfIterations as the caller gives it
IterationOptions ==
  {[defined |-> FALSE, n |-> 0]} \cup { [defined |-> TRUE, n |-> k] : k \in 0..MaxIterations }

\* the constructor: if (!this.options.numberOfIterations) numberOfIterations = 10
ConstructedIterations(given) ==
  IF ~given.defined \/ given.n = 0 THEN DefaultIterations ELSE given.n

\* a parameter of a page: Name (under the path) and Value
Parameter(name, value) == [Name |-> name, Value |-> value]

\* the pages the store may answer with: Parameters is undefined or a list,
\* NextToken is undefined, the empty string or a token
NoParameters == [defined |-> FALSE, list |-> <<>>]

PageParameters ==
  {NoParameters}
    \cup { [defined |-> TRUE, list |-> l] :
             l \in { <<>>, <<Parameter("a", "1")>>, <<Parameter("a", "2")>>,
                     <<Parameter("b", ""), Parameter("c", "3")>> } }

Pages == { [Parameters |-> ps, NextToken |-> t] : ps \in PageParameters, t \in {"undefined", "", "t"} }

NoPage == [Parameters |-> NoParameters, NextToken |-> "undefined"]

\* parameterMap[name] = value
SetEntry(map, name, value) == { e \in map : e[1] # name } \cup {<<name, value>>}

\* partialResult.Parameters.forEach((p) => { if (p.Name && p.Value) ... })
RECURSIVE MergeParameters(_, _)
MergeParameters(map, list) ==
  IF list = <<>> THEN map
  ELSE MergeParameters(IF Head(list).Name # "" /\ Head(list).Value # ""
                       THEN SetEntry(map, Head(list).Name, Head(list).Value)
                       ELSE map,
                       Tail(list))

\* the safeguard, off by one
TooManyIterationsOffByOne(i, n) == i >= n

\* iteration > this.options.numberOfIterations
TooManyIterations(i, n) == i > n

PgInit ==
  /\ numberOfIterations \in { ConstructedIterations(g) : g \in IterationOptions }
  /\ iteration = 0 /\ roundTrips = 0
  /\ partialResult = NoPage /\ parameterMap = {}
  /\ pgOutcome = [kind |-> "none", value |-> {}, error |-> NoError]

\* the loop goes on: first turn, or while (partialResult.NextToken)
PgRequesting ==
  /\ pgOutcome.kind = "none"
  /\ roundTrips = 0 \/ partialResult.NextToken = "t"

PgFrame ==
  UNCHANGED <<numberOfIterations, pipeVars, azVars, proxyVars, ssmVars, routerVars,
              errVars, lpVars>>

\* the round trip fails: getParameters rejects with the error of the client
PgRequestRejects ==
  /\ PgRequesting
  /\ roundTrips' = roundTrips + 1
  /\ pgOutcome' = [kind |-> "err", value |-> {},
                   error |-> plainError("AWSError", "getParametersByPath failed")]
  /\ UNCHANGED <<iteration, partialResult, parameterMap>>
  /\ PgFrame

\* the page has no Parameters: break, return parameterMap
PgPageWithoutParameters ==
  /\ PgRequesting
  /\ \E page \in Pages :
       /\ ~page.Parameters.defined
       /\ partialResult' = page
  /\ roundTrips' = roundTrips + 1
  /\ pgOutcome' = [kind |-> "ok", value |-> parameterMap, error |-> NoError]
  /\ UNCHANGED <<iteration, parameterMap>>
  /\ PgFrame

\* the page has Parameters: they are merged, the iteration is counted, and
\* the safeguard throws, or the loop goes on, or the map is returned
PgPageWithParameters ==
  /\ PgRequesting
  /\ \E page \in Pages :
       /\ page.Parameters.defined
       /\ partialResult' = page
       /\ parameterMap' = MergeParameters(parameterMap, page.Parameters.list)
  /\ roundTrips' = roundTrips + 1
  /\ iteration' = iteration + 1
  /\ pgOutcome' =
       IF TooManyIterations(iteration', numberOfIterations)
       THEN [kind |-> "err", value |-> {},
             error |-> configurationError("configurationError:tooMany",
                                          "Too many parameters defined under the path.")]
       ELSE IF partialResult'.NextToken = "t" THEN pgOutcome
       ELSE [kind |-> "ok", value |-> parameterMap', error |-> NoError]
  /\ PgFrame

PgNext == PgRequestRejects \/ PgPageWithoutParameters \/ PgPageWithParameters

(***************************************************************************)
(* Claims about getParameters.                                             *)
(***************************************************************************)
PgSettled == pgOutcome.kind # "none"

\* the store answered every request of the fetch with a page
PgOnlyPages == ~(pgOutcome.kind = "err" /\ pgOutcome.error.id = "AWSError")

PgBounded ==
  /\ roundTrips <= numberOfIterations + 1
  /\ roundTrips = numberOfIterations + 1 => PgSettled
  /\ ~PgSettled => roundTrips = iteration /\ (roundTrips = 0 \/ partialResult.NextToken = "t")

\* C17 as stated: getParameters issues at most numberOfIterations + 1 round
\* trips and settles; it succeeds with the merged map when the results end
\* within numberOfIterations pages, and otherwise fails with
\* configurationError.
C17_FailsBeyondIterations ==
  /\ PgBounded
  /\ (PgSettled /\ PgOnlyPages) =>
       IF roundTrips <= numberOfIterations
       THEN pgOutcome.kind = "ok" /\ pgOutcome.value = parameterMap
       ELSE pgOutcome.kind = "err" /\ pgOutcome.error.code = "configurationError"

\* C17 amended: the same, except that a page without Parameters received in
\* the round trip numberOfIterations + 1 ends the fetch with success.
C17_PaginationTerminates ==
  /\ [](/\ PgBounded
        /\ (PgSettled /\ PgOnlyPages) =>
             IF roundTrips <= numberOfIterations \/ ~partialResult.Parameters.defined
             THEN pgOutcome.kind = "ok" /\ pgOutcome.value = parameterMap
             ELSE pgOutcome.kind = "err" /\ pgOutcome.error.code = "configurationError")
  /\ <>PgSettled

\* C17 witness: with numberOfIterations = 2, two pages with a token and a
\* third page with parameters: three round trips, configurationError.
C17_Witness ==
  /\ numberOfIterations = 2 /\ roundTrips = 3 /\ iteration = 3
  /\ partialResult.Parameters.defined
  /\ parameterMap = {<<"a", "2">>, <<"c", "3">>}
  /\ pgOutcome.kind = "err" /\ pgOutcome.error.code = "configurationError"

(***************************************************************************)
(* Specifications.                                                         *)
(***************************************************************************)
InitPipeline == PipeInit /\ AzIdle /\ ProxyIdle /\ SsmIdle /\ RouterIdle /\ ErrIdle /\ LpIdle /\ PgIdle
SpecPipeline == InitPipeline /\ [][PipeNext]_vars

InitAzure == AzInit /\ PipeIdle /\ ProxyIdle /\ SsmIdle /\ RouterIdle /\ ErrIdle /\ LpIdle /\ PgIdle
SpecAzure == InitAzure /\ [][AzNext]_vars

InitProxy == ProxyInit /\ PipeIdle /\ AzIdle /\ SsmIdle /\ RouterIdle /\ ErrIdle /\ LpIdle /\ PgIdle
SpecProxy == InitProxy /\ [][ProxyNext]_vars

InitSSM == SsmInit /\ PipeIdle /\ AzIdle /\ ProxyIdle /\ RouterIdle /\ ErrIdle /\ LpIdle /\ PgIdle
SpecSSM == InitSSM /\ [][SsmNext]_vars

InitRouter == RouterInit /\ PipeIdle /\ AzIdle /\ ProxyIdle /\ SsmIdle /\ ErrIdle /\ LpIdle /\ PgIdle
SpecRouter == InitRouter /\ [][RouterNext]_vars

InitErrors == ErrInit /\ PipeIdle /\ AzIdle /\ ProxyIdle /\ SsmIdle /\ RouterIdle /\ LpIdle /\ PgIdle
SpecErrors == InitErrors /\ [][ErrNext]_vars

InitLambdaProxy == LpInit /\ PipeIdle /\ AzIdle /\ ProxyIdle /\ SsmIdle /\ RouterIdle /\ ErrIdle /\ PgIdle
SpecLambdaProxy == InitLambdaProxy /\ [][LpNext]_vars

InitSSMSet == InitSSM
SpecSSMSet == InitSSMSet /\ [][SsmSetNext]_vars

\* the store answers every request: the loop takes its next turn
InitPaging == PgInit /\ PipeIdle /\ AzIdle /\ ProxyIdle /\ SsmIdle /\ RouterIdle /\ ErrIdle /\ LpIdle
SpecPaging == InitPaging /\ [][PgNext]_vars /\ WF_vars(PgNext)

=============================================================================
